---- MODULE Spec2Model ----
(***************************************************************************)
(* The ChessBot library store: src/src/library.rs (Database and its        *)
(* entities), src/src/utils.rs (the title/author comparator) and the       *)
(* command handlers of src/src/main.rs that act on the store.              *)
(*                                                                         *)
(* Text is a sequence of one-character strings.  An IndexMap is a sequence *)
(* of entries [key, value] in the map's iteration order.  An Option is a   *)
(* sequence of length 0 (None) or 1 (Some).                                *)
(*                                                                         *)
(* books, checkouts and users are the Database behind the RwLock; rt is    *)
(* the process around it: the position of main, the snapshot file, the     *)
(* RwLock and the command handlers in flight.  last and added record       *)
(* history: the most recent call and the order in which books were added.  *)
(***************************************************************************)
EXTENDS Integers, Sequences, FiniteSets, TLC

VARIABLES books, checkouts, users, last, added, rt

vars == <<books, checkouts, users, last, added, rt>>

-----------------------------------------------------------------------------
(* Bounds of the model                                                     *)

\* most books the store holds before the add handlers stop being explored
MaxBooks == 3
\* most books / checkouts / users of a snapshot the store starts from
MaxInitBooks == 2
MaxInitCheckouts == 2
\* largest quantity given to set-quantity (a book is added with quantity 1)
MaxQuantity == 0
\* longest text given to the comparator, besides the three titles of
\* CmpTitles
MaxTextLen == 4

-----------------------------------------------------------------------------
(* Characters and text                                                     *)

Upper == <<"A","B","C","D","E","F","G","H","I","J","K","L","M",
           "N","O","P","Q","R","S","T","U","V","W","X","Y","Z">>
Lower == <<"a","b","c","d","e","f","g","h","i","j","k","l","m",
           "n","o","p","q","r","s","t","u","v","w","x","y","z">>
Digits == <<"0","1","2","3","4","5","6","7","8","9">>

IndexIn(seq, c) == CHOOSE i \in DOMAIN seq : seq[i] = c
IsIn(seq, c) == \E i \in DOMAIN seq : seq[i] = c

Chars == {" "} \cup { Digits[i] : i \in DOMAIN Digits }
               \cup { Upper[i] : i \in DOMAIN Upper }
               \cup { Lower[i] : i \in DOMAIN Lower }

\* the ASCII code of each character
Ascii ==
    [ c \in Chars |->
        IF c = " " THEN 32
        ELSE IF IsIn(Digits, c) THEN 47 + IndexIn(Digits, c)
        ELSE IF IsIn(Upper, c) THEN 64 + IndexIn(Upper, c)
        ELSE 96 + IndexIn(Lower, c) ]

\* str::bytes: the byte of a character of a text
byte(c) == Ascii[c]

\* u8::to_ascii_lowercase
to_ascii_lowercase(b) == IF b >= 65 /\ b <= 90 THEN b + 32 ELSE b

\* Ord::cmp on two bytes
cmp(x, y) == IF x < y THEN "Less" ELSE IF x > y THEN "Greater" ELSE "Equal"

\* a zip that stops at the end of the shorter text
zip_shortest_ordering(a, b, i) ==
    IF i > Len(b) \/ i > Len(a) THEN "Equal"
    ELSE IF byte(a[i]) = 32 /\ byte(b[i]) = 32 THEN "Equal"
    ELSE cmp(to_ascii_lowercase(byte(a[i])), to_ascii_lowercase(byte(b[i])))

\* the item zip_longest yields at position i, mapped to an Ordering
zip_ordering(a, b, i) ==
    IF i > Len(b) THEN "Greater"
    ELSE IF i > Len(a) THEN "Less"
    ELSE IF byte(a[i]) = 32 /\ byte(b[i]) = 32 THEN "Equal"
    ELSE cmp(to_ascii_lowercase(byte(a[i])), to_ascii_lowercase(byte(b[i])))

Max(x, y) == IF x >= y THEN x ELSE y

cmp_ignore_case_ascii(a, b) ==
    ~ \E i \in 1..Max(Len(a), Len(b)) : zip_ordering(a, b, i) # "Equal"

-----------------------------------------------------------------------------
(* Identifier codec                                                        *)

\* u32::pow(2, 32 - 5): identifiers below it are regenerated
Pow2_27 == 134217728

\* the values rand::thread_rng().gen() yields in this model:
\* Draw(0) is below 2^27, the others are at or above it
Draw(k) == Pow2_27 - 1 + k * 16843009
\* the identifiers of a snapshot's books, checkouts and user, and an
\* identifier no snapshot holds
InitBookId(i) == Draw(i)
InitCheckoutId(j) == Draw(MaxInitBooks + j)
InitUserId == Draw(MaxInitBooks + MaxInitCheckouts + 1)
FreshId == Draw(MaxInitBooks + MaxInitCheckouts + 2)

\* what the random source yields: a value below 2^27, the identifier of a
\* checkout and of the user of the snapshot, and the fresh one
RngDraws == { Draw(0), InitCheckoutId(1), InitUserId, FreshId }

Pow2(n) == 2 ^ n

\* the bytes of u least significant first
to_le_bytes(u) ==
    << u % 256, (u \div 256) % 256, (u \div 65536) % 256, u \div 16777216 >>

\* u32::to_be_bytes
to_be_bytes(u) ==
    << u \div 16777216, (u \div 65536) % 256, (u \div 256) % 256, u % 256 >>

\* u32::from_be_bytes
from_be_bytes(b) == b[1] * 16777216 + b[2] * 65536 + b[3] * 256 + b[4]

\* bit j (0 = most significant bit of the first byte) of a byte string,
\* zero past its end
BitOf(bytes, j) ==
    IF j >= 8 * Len(bytes) THEN 0
    ELSE (bytes[(j \div 8) + 1] \div Pow2(7 - (j % 8))) % 2

\* the RFC 4648 base-32 alphabet of data_encoding::BASE32_NOPAD
Base32Symbols == <<"A","B","C","D","E","F","G","H","I","J","K","L","M",
                   "N","O","P","Q","R","S","T","U","V","W","X","Y","Z",
                   "2","3","4","5","6","7">>

\* BASE32_NOPAD.encode_len
encode_len(n) == (8 * n + 4) \div 5

\* BASE32_NOPAD.encode: 5 bits per symbol, the last symbol zero-filled
base32_encode(bytes) ==
    [ i \in 1..encode_len(Len(bytes)) |->
        Base32Symbols[ 1 + 16 * BitOf(bytes, 5 * (i - 1))
                         +  8 * BitOf(bytes, 5 * (i - 1) + 1)
                         +  4 * BitOf(bytes, 5 * (i - 1) + 2)
                         +  2 * BitOf(bytes, 5 * (i - 1) + 3)
                         +      BitOf(bytes, 5 * (i - 1) + 4) ] ]


\* BASE32_NOPAD.decode_len: Err (here -1) when the trailing bits cannot
\* come from an encoding, else the number of bytes
decode_len(n) == IF (5 * n) % 8 >= 5 THEN -1 ELSE (5 * n) \div 8

\* value of a symbol, -1 when it is not in the alphabet
symbol_value(c) == IF IsIn(Base32Symbols, c) THEN IndexIn(Base32Symbols, c) - 1 ELSE -1

\* bit j of the symbol stream of a text of valid symbols
SymbolBit(text, j) == (symbol_value(text[(j \div 5) + 1]) \div Pow2(4 - (j % 5))) % 2

\* BASE32_NOPAD.decode_mut into a buffer of decode_len bytes: Err (here <<>>)
\* on a symbol outside the alphabet or on non-zero trailing bits
base32_decode(text) ==
    IF \E i \in DOMAIN text : symbol_value(text[i]) < 0 THEN << >>
    ELSE IF \E j \in (8 * decode_len(Len(text)))..(5 * Len(text) - 1) : SymbolBit(text, j) # 0
         THEN << >>
    ELSE << [ k \in 1..decode_len(Len(text)) |->
                128 * SymbolBit(text, 8 * (k - 1))
              +  64 * SymbolBit(text, 8 * (k - 1) + 1)
              +  32 * SymbolBit(text, 8 * (k - 1) + 2)
              +  16 * SymbolBit(text, 8 * (k - 1) + 3)
              +   8 * SymbolBit(text, 8 * (k - 1) + 4)
              +   4 * SymbolBit(text, 8 * (k - 1) + 5)
              +   2 * SymbolBit(text, 8 * (k - 1) + 6)
              +       SymbolBit(text, 8 * (k - 1) + 7) ] >>

\* the u32 a text decodes to as 4 big-endian bytes, as an Option: the part
\* of decode_raw before the lookup in the store
decode_u32(text) ==
    LET len_needed == decode_len(Len(text))
    IN  IF len_needed < 0 THEN << >>
        ELSE IF 4 # len_needed THEN << >>
        ELSE IF base32_decode(text) = << >> THEN << >>
        ELSE << from_be_bytes(base32_decode(text)[1]) >>

-----------------------------------------------------------------------------
(* Inputs                                                                  *)

\* the <name> <author> arguments given to the add command
Names == { [name |-> <<"C", "b">>, author |-> <<"a">>],
           [name |-> <<"c", "b">>, author |-> <<"A">>],
           [name |-> <<"C", "b">>, author |-> <<"e">>],
           [name |-> <<"d">>,      author |-> <<"a">>] }

Titles == { n.name : n \in Names }

\* text a user types where a book is expected: a title, an encoded
\* identifier, or text that is neither
InputTexts ==
    Titles \cup { base32_encode(to_be_bytes(u)) : u \in RngDraws }
           \cup { <<"b", "a", "a", "a", "a", "a", "a">> }

\* the codec on the identifiers and texts of the model, computed once
EncodeTable == [ u \in RngDraws |-> base32_encode(to_be_bytes(u)) ]
DecodeTable == [ t \in InputTexts |-> decode_u32(t) ]

encode_uuid(uuid) ==
    IF uuid \in DOMAIN EncodeTable THEN EncodeTable[uuid]
    ELSE base32_encode(to_be_bytes(uuid))

-----------------------------------------------------------------------------
(* IndexMap: a sequence of entries in iteration order                      *)

Entry(k, v) == [key |-> k, value |-> v]

contains_key(m, k) == \E i \in DOMAIN m : m[i].key = k

\* IndexMap::get_index_of, for a key that is present
index_of(m, k) == CHOOSE i \in DOMAIN m : m[i].key = k

\* IndexMap::get: an Option of the value
get(m, k) == IF contains_key(m, k) THEN << m[index_of(m, k)].value >> ELSE << >>

\* IndexMap::insert: a new key goes last, a present key keeps its place
insert(m, k, v) ==
    IF contains_key(m, k)
    THEN [m EXCEPT ![index_of(m, k)] = Entry(k, v)]
    ELSE Append(m, Entry(k, v))

\* IndexMap::swap_remove: the last entry takes the place of the removed one
swap_remove(m, k) ==
    IF ~contains_key(m, k) THEN m
    ELSE LET i == index_of(m, k)
             n == Len(m)
         IN  [ j \in 1..(n - 1) |-> IF j = i THEN m[n] ELSE m[j] ]

\* IndexMap::remove is swap_remove
remove(m, k) == swap_remove(m, k)

keys(m) == { m[i].key : i \in DOMAIN m }

-----------------------------------------------------------------------------
(* Entities                                                                *)

Book(uuid, name, author, quantity) ==
    [uuid |-> uuid, name |-> name, author |-> author, quantity |-> quantity]

CheckoutStatus == {"PreTransact", "Reading", "ReturnVerifyNeeded", "DONE"}

CheckoutInstance(uuid, rentee, book, status, due_date, checkout_approval, checkin_approval) ==
    [uuid |-> uuid, rentee |-> rentee, book |-> book, status |-> status,
     due_date |-> due_date, checkout_approval |-> checkout_approval,
     checkin_approval |-> checkin_approval]

User(discord_id, read_name, uuid) ==
    [discord_id |-> discord_id, read_name |-> read_name, uuid |-> uuid]

\* books a caller of add_book can pass
ApiBooks ==
    { Book(u, n.name, n.author, 1) :
        u \in { InitBookId(1), InitCheckoutId(1), FreshId }, n \in Names }

Database(b, c, u) == [books |-> b, checkouts |-> c, users |-> u]

\* Database::new
new == Database(<< >>, << >>, << >>)

\* the store of the current state
DB == Database(books, checkouts, users)

-----------------------------------------------------------------------------
(* The snapshot file: bincode::serialize / bincode::deserialize of the     *)
(* Database.  The data is a sequence of items, one per fixed-width integer *)
(* (u32 field, u64 length, enum variant index, Option tag) and one per     *)
(* byte of a String; a time is one item.                                   *)

\* the variants of CheckoutStatus in declaration order
StatusVariants == <<"PreTransact", "Reading", "ReturnVerifyNeeded", "DONE">>

\* the times the checkouts of the model carry
Times == <<"due", "handout", "return">>

\* a String: its length, then its bytes
ser_string(s) == << Len(s) >> \o [ i \in 1..Len(s) |-> byte(s[i]) ]

\* an Option of a time: the tag 0, or the tag 1 and the time
ser_option(o) == IF o = << >> THEN << 0 >> ELSE << 1, IndexIn(Times, o[1]) >>

\* a Book: its fields in declaration order
ser_book(b) ==
    << b.uuid >> \o ser_string(b.name) \o ser_string(b.author) \o << b.quantity >>

ser_checkout(c) ==
    << c.uuid, c.rentee, c.book, IndexIn(StatusVariants, c.status) - 1 >>
        \o ser_option(c.due_date) \o ser_option(c.checkout_approval)
        \o ser_option(c.checkin_approval)

ser_user(u) == ser_string(u.discord_id) \o ser_string(u.read_name) \o << u.uuid >>

\* a value of a map, by its type
ser_value(type, v) ==
    IF type = "Book" THEN ser_book(v)
    ELSE IF type = "CheckoutInstance" THEN ser_checkout(v)
    ELSE ser_user(v)

\* the entries of a map from position i on: each key, then its value
RECURSIVE ser_entries(_, _, _)
ser_entries(m, i, type) ==
    IF i > Len(m) THEN << >>
    ELSE << m[i].key >> \o ser_value(type, m[i].value) \o ser_entries(m, i + 1, type)

\* an IndexMap written from its last entry to its first
ser_map_reversed(m, type) ==
    << Len(m) >> \o ser_entries([ i \in DOMAIN m |-> m[Len(m) + 1 - i] ], 1, type)

\* an IndexMap: its length, then its entries in iteration order
ser_map(m, type) == << Len(m) >> \o ser_entries(m, 1, type)

\* bincode::serialize(&Database): the three maps in declaration order
serialize(db) ==
    ser_map(db.books, "Book") \o ser_map(db.checkouts, "CheckoutInstance")
        \o ser_map(db.users, "User")

\* the result of reading a value at the head of data: the value and the
\* data after it, or a failure
Parsed(v, rest) == [ok |-> TRUE, val |-> v, rest |-> rest]
Unparsed == [ok |-> FALSE, val |-> << >>, rest |-> << >>]

Tail_from(d, k) == SubSeq(d, k, Len(d))

\* an integer item
de_u32(d) == IF d = << >> THEN Unparsed ELSE Parsed(d[1], Tail(d))

\* the character of a byte
char_of(b) == CHOOSE c \in Chars : Ascii[c] = b

de_string(d) ==
    IF d = << >> THEN Unparsed
    ELSE IF d[1] > Len(d) - 1 THEN Unparsed
    ELSE IF \E i \in 2..(d[1] + 1) : \A c \in Chars : Ascii[c] # d[i] THEN Unparsed
    ELSE Parsed([ i \in 1..d[1] |-> char_of(d[i + 1]) ], Tail_from(d, d[1] + 2))

de_option(d) ==
    IF d = << >> THEN Unparsed
    ELSE IF d[1] = 0 THEN Parsed(<< >>, Tail(d))
    ELSE IF d[1] # 1 \/ Len(d) < 2 \/ d[2] \notin DOMAIN Times THEN Unparsed
    ELSE Parsed(<< Times[d[2]] >>, Tail_from(d, 3))

de_status(d) ==
    IF d = << >> THEN Unparsed
    ELSE IF d[1] + 1 \notin DOMAIN StatusVariants THEN Unparsed
    ELSE Parsed(StatusVariants[d[1] + 1], Tail(d))

\* one field of a struct, by its type
de_item(kind, d) ==
    IF kind = "u32" THEN de_u32(d)
    ELSE IF kind = "String" THEN de_string(d)
    ELSE IF kind = "Option" THEN de_option(d)
    ELSE de_status(d)

\* the fields kinds[i..] of a struct, one after the other; acc holds the
\* fields read so far
RECURSIVE de_fields(_, _, _, _)
de_fields(d, kinds, i, acc) ==
    IF i > Len(kinds) THEN Parsed(acc, d)
    ELSE CHOOSE r \in { IF p.ok THEN de_fields(p.rest, kinds, i + 1, Append(acc, p.val))
                        ELSE Unparsed :
                        p \in { de_item(kinds[i], d) } } : TRUE

de_book(d) ==
    CHOOSE r \in { IF p.ok
                   THEN Parsed(Book(p.val[1], p.val[2], p.val[3], p.val[4]), p.rest)
                   ELSE Unparsed :
                   p \in { de_fields(d, <<"u32", "String", "String", "u32">>, 1, << >>) } } : TRUE

de_checkout(d) ==
    CHOOSE r \in { IF p.ok
                   THEN Parsed(CheckoutInstance(p.val[1], p.val[2], p.val[3], p.val[4],
                                                p.val[5], p.val[6], p.val[7]), p.rest)
                   ELSE Unparsed :
                   p \in { de_fields(d, <<"u32", "u32", "u32", "CheckoutStatus",
                                          "Option", "Option", "Option">>, 1, << >>) } } : TRUE

de_user(d) ==
    CHOOSE r \in { IF p.ok THEN Parsed(User(p.val[1], p.val[2], p.val[3]), p.rest)
                   ELSE Unparsed :
                   p \in { de_fields(d, <<"String", "String", "u32">>, 1, << >>) } } : TRUE

\* a value of a map, by its type
de_value(type, d) ==
    IF type = "Book" THEN de_book(d)
    ELSE IF type = "CheckoutInstance" THEN de_checkout(d)
    ELSE de_user(d)

\* n entries of a map, each inserted into m as IndexMap::insert does
RECURSIVE de_entries(_, _, _, _)
de_entries(d, n, m, type) ==
    IF n = 0 THEN Parsed(m, d)
    ELSE IF d = << >> THEN Unparsed
    ELSE CHOOSE r \in { IF v.ok
                        THEN de_entries(v.rest, n - 1, insert(m, d[1], v.val), type)
                        ELSE Unparsed :
                        v \in { de_value(type, Tail(d)) } } : TRUE

de_map(d, type) ==
    IF d = << >> THEN Unparsed ELSE de_entries(Tail(d), d[1], << >>, type)

\* bincode::deserialize::<Database>: an Option of the store; data past the
\* third map is ignored
deserialize(data) ==
    CHOOSE r \in { IF ~b.ok THEN << >>
                   ELSE CHOOSE s \in { IF ~c.ok THEN << >>
                                       ELSE CHOOSE t \in { IF ~u.ok THEN << >>
                                                           ELSE << Database(b.val, c.val, u.val) >> :
                                                           u \in { de_map(c.rest, "User") } } : TRUE :
                                       c \in { de_map(b.rest, "CheckoutInstance") } } : TRUE :
                   b \in { de_map(data, "Book") } } : TRUE

\* the snapshot file library-db.bin: absent, or its data
NoFile == [exists |-> FALSE, data |-> << >>]
File(data) == [exists |-> TRUE, data |-> data]

-----------------------------------------------------------------------------

(* Results                                                                 *)

Ok == [kind |-> "Ok", text |-> << >>, ids |-> << >>, book |-> << >>]
OkBook(b) == [Ok EXCEPT !.book = << b >>]
AlreadyAdded(text) == [Ok EXCEPT !.kind = "AlreadyAdded", !.text = text]
UnknownBook(text) == [Ok EXCEPT !.kind = "UnknownBook", !.text = text]
OutstandingBooksNonReturned(ids) ==
    [Ok EXCEPT !.kind = "OutstandingBooksNonReturned", !.ids = ids]

-----------------------------------------------------------------------------
(* Database operations                                                     *)

\* the books matching `book` on title and author, in map order
matching_books(db, book) ==
    { i \in DOMAIN db.books :
        /\ cmp_ignore_case_ascii(db.books[i].value.name, book.name)
        /\ cmp_ignore_case_ascii(db.books[i].value.author, book.author) }

\* add_book comparing names and authors byte for byte
add_book_exact_match(db, book) ==
    IF contains_key(db.books, book.uuid)
    THEN [db |-> db, res |-> AlreadyAdded(encode_uuid(book.uuid))]
    ELSE IF \E i \in DOMAIN db.books :
                /\ db.books[i].value.name = book.name
                /\ db.books[i].value.author = book.author
    THEN [db |-> db, res |-> AlreadyAdded(book.name)]
    ELSE [db |-> [db EXCEPT !.books = insert(db.books, book.uuid, book)], res |-> Ok]

\* add_book inserting before it looks for a book of the same title and author
add_book_insert_first(db, book) ==
    IF contains_key(db.books, book.uuid)
    THEN [db |-> db, res |-> AlreadyAdded(encode_uuid(book.uuid))]
    ELSE IF matching_books(db, book) # {}
    THEN [db |-> [db EXCEPT !.books = insert(db.books, book.uuid, book)],
          res |-> AlreadyAdded(book.name)]
    ELSE [db |-> [db EXCEPT !.books = insert(db.books, book.uuid, book)], res |-> Ok]

\* add_book that inserts the book under another key than its uuid
add_book_rekeyed(db, book) ==
    IF contains_key(db.books, book.uuid)
    THEN [db |-> db, res |-> AlreadyAdded(encode_uuid(book.uuid))]
    ELSE IF matching_books(db, book) # {}
    THEN [db |-> db, res |-> AlreadyAdded(book.name)]
    ELSE [db |-> [db EXCEPT !.books = insert(db.books, book.uuid + 1, book)], res |-> Ok]

add_book(db, book) ==
    IF contains_key(db.books, book.uuid)
    THEN [db |-> db, res |-> AlreadyAdded(encode_uuid(book.uuid))]
    ELSE IF matching_books(db, book) # {}
    THEN [db |-> db, res |-> AlreadyAdded(book.name)]
    ELSE [db |-> [db EXCEPT !.books = insert(db.books, book.uuid, book)], res |-> Ok]

\* the uuids of the checkouts of index >= j whose book is uuid, in map order
RECURSIVE error_books(_, _, _)
error_books(db, uuid, j) ==
    IF j > Len(db.checkouts) THEN << >>
    ELSE IF db.checkouts[j].value.book = uuid
         THEN << db.checkouts[j].value.uuid >> \o error_books(db, uuid, j + 1)
         ELSE error_books(db, uuid, j + 1)

\* remove_book reporting only the first checkout of the book
remove_book_first_only(db, uuid) ==
    IF \E i \in DOMAIN db.checkouts : db.checkouts[i].value.book = uuid
    THEN [db |-> db,
          res |-> OutstandingBooksNonReturned(<< error_books(db, uuid, 1)[1] >>)]
    ELSE IF get(db.books, uuid) = << >>
    THEN [db |-> db, res |-> UnknownBook(encode_uuid(uuid))]
    ELSE [db |-> [db EXCEPT !.books = remove(db.books, uuid)],
          res |-> OkBook(get(db.books, uuid)[1])]

\* remove_book that looks the book up and leaves it in the map
remove_book_keeps_book(db, uuid) ==
    IF \E i \in DOMAIN db.checkouts : db.checkouts[i].value.book = uuid
    THEN [db |-> db, res |-> OutstandingBooksNonReturned(error_books(db, uuid, 1))]
    ELSE IF get(db.books, uuid) = << >>
    THEN [db |-> db, res |-> UnknownBook(encode_uuid(uuid))]
    ELSE [db |-> db, res |-> OkBook(get(db.books, uuid)[1])]

\* remove_book without the scan of the checkouts
remove_book_unguarded(db, uuid) ==
    IF get(db.books, uuid) = << >>
    THEN [db |-> db, res |-> UnknownBook(encode_uuid(uuid))]
    ELSE [db |-> [db EXCEPT !.books = remove(db.books, uuid)],
          res |-> OkBook(get(db.books, uuid)[1])]

remove_book(db, uuid) ==
    IF \E i \in DOMAIN db.checkouts : db.checkouts[i].value.book = uuid
    THEN [db |-> db, res |-> OutstandingBooksNonReturned(error_books(db, uuid, 1))]
    ELSE IF get(db.books, uuid) = << >>
    THEN [db |-> db, res |-> UnknownBook(encode_uuid(uuid))]
    ELSE [db |-> [db EXCEPT !.books = remove(db.books, uuid)],
          res |-> OkBook(get(db.books, uuid)[1])]

\* the test of new_raw_uuid without the look at the checkouts
raw_uuid_accepted_no_checkouts(db, uuid) ==
    /\ ~(uuid < Pow2_27)
    /\ ~contains_key(db.users, uuid)
    /\ ~contains_key(db.books, uuid)

\* the test of new_raw_uuid without the lower limit of 2^27
raw_uuid_accepted_no_floor(db, uuid) ==
    /\ ~contains_key(db.users, uuid)
    /\ ~contains_key(db.books, uuid)
    /\ ~contains_key(db.checkouts, uuid)

\* one pass of the loop of new_raw_uuid ends it with uuid
raw_uuid_accepted(db, uuid) ==
    /\ ~(uuid < Pow2_27)
    /\ ~contains_key(db.users, uuid)
    /\ ~contains_key(db.books, uuid)
    /\ ~contains_key(db.checkouts, uuid)

\* the values new_raw_uuid can return
new_raw_uuid(db) == { uuid \in RngDraws : raw_uuid_accepted(db, uuid) }

new_book_uuid(db) == new_raw_uuid(db)

new_user_uuid(db) == new_raw_uuid(db)

new_checkout_uuid(db) == new_raw_uuid(db)

\* decode_raw: [err, id, type]
decode_raw(db, text) ==
    LET decoded == IF text \in DOMAIN DecodeTable THEN DecodeTable[text]
                   ELSE decode_u32(text)
    IN  IF decoded = << >>
        THEN [err |-> "InvalidEncoding", id |-> 0, type |-> "None"]
        ELSE LET result == decoded[1]
             IN  IF contains_key(db.users, result)
                 THEN [err |-> "None", id |-> result, type |-> "User"]
                 ELSE IF contains_key(db.books, result)
                 THEN [err |-> "None", id |-> result, type |-> "Book"]
                 ELSE IF contains_key(db.checkouts, result)
                 THEN [err |-> "None", id |-> result, type |-> "Checkout"]
                 ELSE [err |-> "NotFound", id |-> 0, type |-> "None"]

\* uuid_type_to_mismatch_error answering NotFound for every class
uuid_type_to_mismatch_error_not_found(type) == "NotFound"

uuid_type_to_mismatch_error(type) ==
    IF type = "User" THEN "MismatchIsUserUuid"
    ELSE IF type = "Book" THEN "MismatchIsBookUuid"
    ELSE "MismatchIsCheckoutUuid"

\* decode_book_uuid: [err, id]
decode_book_uuid(db, text) ==
    LET r == decode_raw(db, text)
    IN  IF r.err # "None" THEN [err |-> r.err, id |-> 0]
        ELSE IF r.type # "Book" THEN [err |-> uuid_type_to_mismatch_error(r.type), id |-> 0]
        ELSE [err |-> "None", id |-> r.id]

\* decode_user_uuid: [err, id]
decode_user_uuid(db, text) ==
    LET r == decode_raw(db, text)
    IN  IF r.err # "None" THEN [err |-> r.err, id |-> 0]
        ELSE IF r.type # "User" THEN [err |-> uuid_type_to_mismatch_error(r.type), id |-> 0]
        ELSE [err |-> "None", id |-> r.id]

\* decode_checkout_uuid: [err, id]
decode_checkout_uuid(db, text) ==
    LET r == decode_raw(db, text)
    IN  IF r.err # "None" THEN [err |-> r.err, id |-> 0]
        ELSE IF r.type # "Checkout" THEN [err |-> uuid_type_to_mismatch_error(r.type), id |-> 0]
        ELSE [err |-> "None", id |-> r.id]

\* the last book, in map order, whose name matches the input
last_by_name(db, input) ==
    LET hits == { i \in DOMAIN db.books : cmp_ignore_case_ascii(db.books[i].value.name, input) }
    IN  IF hits = {} THEN << >>
        ELSE << db.books[CHOOSE i \in hits : \A j \in hits : i >= j].value.uuid >>

\* the first book, in map order, whose name matches the input
first_by_name(db, input) ==
    LET hits == { i \in DOMAIN db.books : cmp_ignore_case_ascii(db.books[i].value.name, input) }
    IN  IF hits = {} THEN << >>
        ELSE << db.books[CHOOSE i \in hits : \A j \in hits : i <= j].value.uuid >>

\* get_book_from_input / get_book_from_input_mut: an Option of the book
get_book_from_input(db, input) ==
    LET d == decode_book_uuid(db, input)
        book_opt_uuid == IF d.err = "None" THEN << d.id >> ELSE first_by_name(db, input)
    IN  IF book_opt_uuid = << >> THEN << >> ELSE get(db.books, book_opt_uuid[1])

get_book_from_input_mut(db, input) == get_book_from_input(db, input)

-----------------------------------------------------------------------------
(* Snapshots the store is loaded from (init, main.rs:177-180): the empty   *)
(* store of Database::new, or a store saved earlier.  A saved store has    *)
(* its books under their own uuids, no two matching on title and author,   *)
(* every checkout on a book of the store, and no identifier used twice.    *)

InitNames == << [name |-> <<"C", "b">>, author |-> <<"a">>],
                [name |-> <<"d">>,      author |-> <<"a">>],
                [name |-> <<"c", "b">>, author |-> <<"e">>] >>

InitBook(i) == Book(InitBookId(i), InitNames[i].name, InitNames[i].author, 1)

InitBooks(n) == [ i \in 1..n |-> Entry(InitBookId(i), InitBook(i)) ]

InitUsers == << Entry(InitUserId, User(<<"1">>, <<"u">>, InitUserId)) >>

\* the optional fields of a checkout that has reached a status
InitCheckout(j, book, status) ==
    CheckoutInstance(InitCheckoutId(j), InitUserId, book, status,
        IF status = "PreTransact" THEN << >> ELSE << "due" >>,
        IF status = "PreTransact" THEN << >> ELSE << "handout" >>,
        IF status = "DONE" THEN << "return" >> ELSE << >>)

\* the first checkout of a snapshot is in any status, the later ones are
\* being read or closed
InitStatus(j) == IF j = 1 THEN CheckoutStatus ELSE {"Reading", "DONE"}

InitCheckouts(n) ==
    UNION { { [ j \in 1..m |-> Entry(InitCheckoutId(j),
                                     InitCheckout(j, f[j][1], f[j][2])) ] :
              f \in { g \in [1..m -> keys(InitBooks(n)) \X CheckoutStatus] :
                        \A j \in 1..m : g[j][2] \in InitStatus(j) } } :
            m \in 0..MaxInitCheckouts }

KeySeq(m) == [ i \in DOMAIN m |-> m[i].key ]

\* `last` is the most recent call: a command handler leaves its name and
\* the kind of its result, a direct call of a store operation its argument
\* and its whole result
NoCall == [op |-> "none", book |-> << >>, uuid |-> 0, res |-> Ok]

Handled(op, res) == [NoCall EXCEPT !.op = op, !.res = [Ok EXCEPT !.kind = res.kind]]

\* the command handlers in flight at a time
Tasks == {1, 2}

\* a command with its arguments: book_name and book_author for add,
\* book_input for set-quantity and remove, new_quantity for set-quantity
Command(op, book_name, book_author, book_input, new_quantity) ==
    [op |-> op, book_name |-> book_name, book_author |-> book_author,
     book_input |-> book_input, new_quantity |-> new_quantity]

\* a handler: its position, its command, the identifier it minted or
\* resolved, its result and the lines of its reply
IdleTask ==
    [pc |-> "idle", cmd |-> Command("none", << >>, << >>, << >>, 0),
     uuid |-> 0, res |-> "none", response |-> << >>]

\* the RwLock around the store: who holds a write guard, who a read
\* guard; main is holder 0
FreeLock == [writers |-> {}, readers |-> {}]

\* the process at position pc of main with the snapshot file `file`, no
\* handler in flight, nothing saved or dumped
Process(pc, file) ==
    [main |-> pc, file |-> file, dump |-> << >>, saved |-> "none", dumped |-> "none",
     lock |-> FreeLock, task |-> [ t \in Tasks |-> IdleTask ]]

Init ==
    /\ \/ /\ books = new.books
          /\ checkouts = new.checkouts
          /\ users = new.users
       \/ \E n \in 1..MaxInitBooks :
            /\ books = InitBooks(n)
            /\ checkouts \in InitCheckouts(n)
            /\ users = InitUsers
    /\ last = NoCall
    /\ added = KeySeq(books)
    /\ rt = Process("wait", IF DB = new THEN NoFile ELSE File(serialize(DB)))

-----------------------------------------------------------------------------
(* Steps                                                                   *)

Range(seq) == { seq[i] : i \in DOMAIN seq }

\* the keys of the books of `bs` in the order the books were added: those
\* known before keep their order, a new one comes last
Track(bs) ==
    SelectSeq(added, LAMBDA k : k \in keys(bs))
        \o SelectSeq(KeySeq(bs), LAMBDA k : k \notin Range(added))

\* the Database behind the lock becomes db
Written(db) ==
    /\ books' = db.books
    /\ checkouts' = db.checkouts
    /\ users' = db.users
    /\ added' = Track(db.books)

\* the store becomes db in one step of a handler that runs alone
Store(db) ==
    /\ Written(db)
    /\ rt' = rt

\* the lines of the list command's response
response_lines(db) ==
    [ i \in DOMAIN db.books |->
        [name |-> db.books[i].value.name,
         author |-> db.books[i].value.author,
         id |-> encode_uuid(db.books[i].value.uuid),
         quantity |-> IF db.books[i].value.quantity > 1
                      THEN << db.books[i].value.quantity >> ELSE << >>] ]

\* !library list
list ==
    /\ last' = Handled("list", Ok)
    /\ Store(DB)

\* !library add <name> <author>
add(book_name, book_author) ==
    /\ Len(books) < MaxBooks
    /\ \E uuid \in new_book_uuid(DB) :
         \E result \in { add_book(DB, Book(uuid, book_name, book_author, 1)) } :
             /\ Store(result.db)
             /\ last' = Handled("add", result.res)

\* !library set-quantity <book> <quantity>
set_quantity(book_input, new_quantity) ==
    \E opt_book \in { get_book_from_input_mut(DB, book_input) } :
        IF opt_book = << >>
        THEN /\ Store(DB)
             /\ last' = Handled("set_quantity", UnknownBook(book_input))
        ELSE /\ Store([DB EXCEPT !.books[index_of(books, opt_book[1].uuid)].value.quantity
                                     = new_quantity])
             /\ last' = Handled("set_quantity", Ok)

\* !library remove <book>
remove_command(book_input) ==
    \E opt_book \in { get_book_from_input_mut(DB, book_input) } :
        IF opt_book = << >>
        THEN /\ Store(DB)
             /\ last' = Handled("remove", UnknownBook(book_input))
        ELSE \E result \in { remove_book(DB, opt_book[1].uuid) } :
                 /\ Store(result.db)
                 /\ last' = Handled("remove", result.res)

\* !library checkout: replies "TODO"
checkout ==
    /\ last' = Handled("checkout", Ok)
    /\ Store(DB)

\* a return command that closes the first checkout still being read
return_command_closes ==
    /\ last' = Handled("return", Ok)
    /\ LET reading == { i \in DOMAIN checkouts : checkouts[i].value.status = "Reading" }
       IN  IF reading = {} THEN Store(DB)
           ELSE Store([DB EXCEPT !.checkouts[CHOOSE i \in reading : TRUE].value.status
                                     = "DONE"])

\* !library return: replies "TODO"
return_command ==
    /\ last' = Handled("return", Ok)
    /\ Store(DB)

Next ==
    \/ list
    \/ \E n \in Names : add(n.name, n.author)
    \/ \E t \in InputTexts, q \in 0..MaxQuantity : set_quantity(t, q)
    \/ \E t \in InputTexts : remove_command(t)
    \/ checkout
    \/ return_command

Spec == Init /\ [][Next]_vars

-----------------------------------------------------------------------------
(* The store's operations called directly                                  *)

add_book_call(book) ==
    /\ Len(books) < MaxBooks
    /\ \E result \in { add_book(DB, book) } :
           /\ Store(result.db)
           /\ last' = [NoCall EXCEPT !.op = "add_book", !.book = << book >>,
                                     !.res = result.res]

remove_book_call(uuid) ==
    \E result \in { remove_book(DB, uuid) } :
        /\ Store(result.db)
        /\ last' = [NoCall EXCEPT !.op = "remove_book", !.uuid = uuid,
                                  !.res = result.res]

NextApi ==
    \/ \E book \in ApiBooks : add_book_call(book)
    \/ \E uuid \in RngDraws \cup { InitBookId(i) : i \in 1..MaxInitBooks } :
         remove_book_call(uuid)

SpecApi == Init /\ [][NextApi]_vars

-----------------------------------------------------------------------------
(* The store's lookups called directly                                     *)

\* text given to the decode functions and to get_book_from_input: the
\* texts of the commands, the identifier of a snapshot's book, and that
\* encoding with a bit set past the 32nd
LookupTexts ==
    InputTexts \cup { base32_encode(to_be_bytes(InitBookId(1))),
                      [base32_encode(to_be_bytes(InitBookId(1))) EXCEPT ![7] = "B"],
                      base32_encode(to_be_bytes(InitBookId(1))) \o <<"A">> }

\* `last` after a lookup: its name, its input, its error ("None" on
\* success), the identifier it returned and the book it returned
Looked(op, text, err, uuid, book) ==
    [NoCall EXCEPT !.op = op, !.uuid = uuid,
                   !.res = [Ok EXCEPT !.kind = err, !.text = text, !.book = book]]

decode_user_uuid_call(text) ==
    \E r \in { decode_user_uuid(DB, text) } :
        /\ last' = Looked("decode_user_uuid", text, r.err, r.id, << >>)
        /\ Store(DB)

decode_book_uuid_call(text) ==
    \E r \in { decode_book_uuid(DB, text) } :
        /\ last' = Looked("decode_book_uuid", text, r.err, r.id, << >>)
        /\ Store(DB)

decode_checkout_uuid_call(text) ==
    \E r \in { decode_checkout_uuid(DB, text) } :
        /\ last' = Looked("decode_checkout_uuid", text, r.err, r.id, << >>)
        /\ Store(DB)

new_user_uuid_call ==
    \E uuid \in new_user_uuid(DB) :
        /\ last' = Looked("new_user_uuid", << >>, "None", uuid, << >>)
        /\ Store(DB)

new_book_uuid_call ==
    \E uuid \in new_book_uuid(DB) :
        /\ last' = Looked("new_book_uuid", << >>, "None", uuid, << >>)
        /\ Store(DB)

new_checkout_uuid_call ==
    \E uuid \in new_checkout_uuid(DB) :
        /\ last' = Looked("new_checkout_uuid", << >>, "None", uuid, << >>)
        /\ Store(DB)

get_book_from_input_call(input) ==
    \E r \in { get_book_from_input(DB, input) } :
        /\ last' = Looked("get_book_from_input", input, "None", 0, r)
        /\ Store(DB)

get_book_from_input_mut_call(input) ==
    \E r \in { get_book_from_input_mut(DB, input) } :
        /\ last' = Looked("get_book_from_input_mut", input, "None", 0, r)
        /\ Store(DB)

\* the lookups, on the stores the add command builds
NextLookup ==
    \/ \E n \in Names : add(n.name, n.author)
    \/ \E t \in LookupTexts : decode_user_uuid_call(t)
    \/ \E t \in LookupTexts : decode_book_uuid_call(t)
    \/ \E t \in LookupTexts : decode_checkout_uuid_call(t)
    \/ new_user_uuid_call
    \/ new_book_uuid_call
    \/ new_checkout_uuid_call
    \/ \E t \in LookupTexts : get_book_from_input_call(t)
    \/ \E t \in LookupTexts : get_book_from_input_mut_call(t)

SpecLookup == Init /\ [][NextLookup]_vars

-----------------------------------------------------------------------------

(* The process: main, the RwLock and the command handlers as tasks         *)

\* load that takes a malformed file for a missing one
load_discards_malformed(file) ==
    IF ~file.exists THEN [panic |-> FALSE, db |-> << >>]
    ELSE [panic |-> FALSE, db |-> deserialize(file.data)]

\* Database::load: the file cannot be read -> None; it is read and
\* deserialized -> Some(db); it is read and malformed -> unwrap panics
load(file) ==
    IF ~file.exists THEN [panic |-> FALSE, db |-> << >>]
    ELSE IF deserialize(file.data) = << >> THEN [panic |-> TRUE, db |-> << >>]
    ELSE [panic |-> FALSE, db |-> deserialize(file.data)]

\* what tokio::fs::write and bincode::serialize can do in save
SaveOutcomes == {"ok", "serialize_err", "create_err", "write_err"}

\* Database::save: the new file and whether it returned Ok; a write that
\* fails part-way leaves a prefix of the data
save(db, file, outcome) ==
    IF outcome = "ok" THEN [ok |-> TRUE, file |-> File(serialize(db))]
    ELSE IF outcome = "write_err"
    THEN [ok |-> FALSE,
          file |-> File(SubSeq(serialize(db), 1, Len(serialize(db)) \div 2))]
    ELSE [ok |-> FALSE, file |-> file]

\* serde_json::to_string(&Database): each map as its list of key and value
to_string(db) ==
    [books |-> [ i \in DOMAIN db.books |-> << db.books[i].key, db.books[i].value >> ],
     checkouts |-> [ i \in DOMAIN db.checkouts |->
                       << db.checkouts[i].key, db.checkouts[i].value >> ],
     users |-> [ i \in DOMAIN db.users |-> << db.users[i].key, db.users[i].value >> ]]

\* try_save that gives up when save fails
try_save_no_fallback(db, file, dump, outcome, dump_ok) ==
    [file |-> save(db, file, outcome).file, dump |-> dump,
     saved |-> IF save(db, file, outcome).ok THEN "ok" ELSE "failed",
     dumped |-> "none"]

\* Database::try_save: the file and the dump in the temporary directory
\* after it, and what it logged about save and about the dump
try_save(db, file, dump, outcome, dump_ok) ==
    IF save(db, file, outcome).ok
    THEN [file |-> save(db, file, outcome).file, dump |-> dump,
          saved |-> "ok", dumped |-> "none"]
    ELSE IF dump_ok
    THEN [file |-> save(db, file, outcome).file, dump |-> << to_string(db) >>,
          saved |-> "failed", dumped |-> "ok"]
    ELSE [file |-> save(db, file, outcome).file, dump |-> dump,
          saved |-> "failed", dumped |-> "failed"]

\* a read guard handed out only while nobody holds any guard
can_read_exclusive(lock) == lock.writers = {} /\ lock.readers = {}

\* RwLock::read is granted while nobody holds a write guard
can_read(lock) == lock.writers = {}

\* a write guard handed out whoever holds one
can_write_unguarded(lock) == TRUE

\* RwLock::write is granted while nobody holds any guard
can_write(lock) == lock.writers = {} /\ lock.readers = {}

\* the snapshots the process is started on: the largest of Init's, without
\* a checkout and with one
BootSnapshots ==
    { Database(InitBooks(MaxInitBooks), c, InitUsers) :
        c \in { << >>,
                << Entry(InitCheckoutId(1), InitCheckout(1, InitBookId(1), "Reading")) >> } }

\* the file at startup: absent, empty, a snapshot, or a snapshot cut short
BootFiles ==
    { NoFile, File(<< >>) }
        \cup { File(serialize(s)) : s \in BootSnapshots }
        \cup { File(SubSeq(serialize(s), 1, Len(serialize(s)) - 1)) : s \in BootSnapshots }

\* the process before init() has run
Boot ==
    /\ books = new.books
    /\ checkouts = new.checkouts
    /\ users = new.users
    /\ last = NoCall
    /\ added = << >>
    /\ rt \in { Process("load", f) : f \in BootFiles }

\* the commands users send while the process runs
Commands ==
    { Command("list", << >>, << >>, << >>, 0) }
        \cup { Command("add", n.name, n.author, << >>, 0) : n \in Names }
        \cup { Command("set_quantity", << >>, << >>, t, q) : t \in Titles, q \in 0..MaxQuantity }
        \cup { Command("remove", << >>, << >>, t, 0) : t \in Titles }

\* the process is running its tasks
Alive == rt.main \in {"wait", "abort", "lock", "save"}

\* handler t is at pc in the handler of op
At(t, op, pc) == Alive /\ rt.task[t].cmd.op = op /\ rt.task[t].pc = pc

\* handler t returns with res: its guard is dropped
Returned(t, res) ==
    [rt EXCEPT !.task[t].pc = "done", !.task[t].res = res,
               !.lock.writers = @ \ {t}, !.lock.readers = @ \ {t}]

Frame == UNCHANGED <<books, checkouts, users, last, added>>

\* init(): load the snapshot, then log in and build the client, which can
\* fail; main then waits for SIGINT or SIGTERM
load_step ==
    /\ rt.main = "load"
    /\ last' = last
    /\ \E r \in { load(rt.file) } :
         IF r.panic
         THEN /\ rt' = [rt EXCEPT !.main = "panic"]
              /\ UNCHANGED <<books, checkouts, users, added>>
         ELSE /\ Written(IF r.db = << >> THEN new ELSE r.db[1])
              /\ \E pc \in {"wait", "init_err"} : rt' = [rt EXCEPT !.main = pc]

\* Signals::wait returns
signal ==
    /\ rt.main = "wait"
    /\ rt' = [rt EXCEPT !.main = "abort"]
    /\ Frame

\* client_join.abort() and the wait for it: the handlers already spawned
\* stay on the runtime
abort ==
    /\ rt.main = "abort"
    /\ rt' = [rt EXCEPT !.main = "lock"]
    /\ Frame

\* library_arc.read().await in main
lock_read ==
    /\ rt.main = "lock"
    /\ can_read(rt.lock)
    /\ rt' = [rt EXCEPT !.main = "save", !.lock.readers = @ \cup {0}]
    /\ Frame

\* Database::try_save(&library).await, then main returns
try_save_step ==
    /\ rt.main = "save"
    /\ \E outcome \in SaveOutcomes, dump_ok \in BOOLEAN :
         \E r \in { try_save(DB, rt.file, rt.dump, outcome, dump_ok) } :
             rt' = [rt EXCEPT !.main = "exit", !.file = r.file, !.dump = r.dump,
                              !.saved = r.saved, !.dumped = r.dumped,
                              !.lock.readers = @ \ {0}]
    /\ Frame

\* the adds that have not returned
adding == { u \in Tasks : rt.task[u].cmd.op = "add" /\ rt.task[u].pc # "done" }

\* the framework spawns the handler of a command; the random source of the
\* model is finite, so an add starts while it has an identifier left for it
start(t, cmd) ==
    /\ rt.main = "wait"
    /\ rt.task[t].pc = "idle"
    /\ \A u \in Tasks : u < t => rt.task[u].pc # "idle"
    /\ cmd.op = "add" => Cardinality(new_book_uuid(DB)) > Cardinality(adding)
    /\ rt' = [rt EXCEPT !.task[t] = [IdleTask EXCEPT !.pc = "acquire", !.cmd = cmd]]
    /\ Frame

\* library_arc.read().await in list
acquire_read(t) ==
    /\ At(t, "list", "acquire")
    /\ can_read(rt.lock)
    /\ rt' = [rt EXCEPT !.task[t].pc = "held", !.lock.readers = @ \cup {t}]
    /\ Frame

\* library_arc.write().await in add, set_quantity and remove
acquire_write(t) ==
    /\ Alive
    /\ rt.task[t].pc = "acquire"
    /\ rt.task[t].cmd.op \in {"add", "set_quantity", "remove"}
    /\ can_write(rt.lock)
    /\ rt' = [rt EXCEPT !.task[t].pc = "held", !.lock.writers = @ \cup {t}]
    /\ Frame

\* list builds its response and drops the read guard
list_respond(t) ==
    /\ At(t, "list", "held")
    /\ rt' = [rt EXCEPT !.task[t].pc = "reply", !.task[t].res = "Ok",
                        !.task[t].response = response_lines(DB),
                        !.lock.readers = @ \ {t}]
    /\ Frame

\* add: library.new_book_uuid()
add_mint(t) ==
    /\ At(t, "add", "held")
    /\ \E uuid \in new_book_uuid(DB) :
         rt' = [rt EXCEPT !.task[t].pc = "minted", !.task[t].uuid = uuid]
    /\ Frame

\* add: library.add_book(book); on Ok the reply is sent under the guard
add_apply(t) ==
    /\ At(t, "add", "minted")
    /\ last' = last
    /\ \E result \in { add_book(DB, Book(rt.task[t].uuid, rt.task[t].cmd.book_name,
                                         rt.task[t].cmd.book_author, 1)) } :
         /\ Written(result.db)
         /\ rt' = IF result.res.kind = "Ok"
                  THEN [rt EXCEPT !.task[t].pc = "reply", !.task[t].res = "Ok"]
                  ELSE Returned(t, result.res.kind)

\* set_quantity: the lookup and the assignment; on Some the reply is sent
\* under the guard
set_quantity_apply(t) ==
    /\ At(t, "set_quantity", "held")
    /\ last' = last
    /\ \E opt_book \in { get_book_from_input_mut(DB, rt.task[t].cmd.book_input) } :
         IF opt_book = << >>
         THEN /\ Written(DB)
              /\ rt' = Returned(t, "UnknownBook")
         ELSE /\ Written([DB EXCEPT !.books[index_of(books, opt_book[1].uuid)].value.quantity
                                       = rt.task[t].cmd.new_quantity])
              /\ rt' = [rt EXCEPT !.task[t].pc = "reply", !.task[t].res = "Ok",
                                  !.task[t].uuid = opt_book[1].uuid]

\* remove: the lookup of the book
remove_resolve(t) ==
    /\ At(t, "remove", "held")
    /\ \E opt_book \in { get_book_from_input_mut(DB, rt.task[t].cmd.book_input) } :
         rt' = IF opt_book = << >>
               THEN Returned(t, "UnknownBook")
               ELSE [rt EXCEPT !.task[t].pc = "resolved", !.task[t].uuid = opt_book[1].uuid]
    /\ Frame

\* remove: library.remove_book(uuid); on Ok the reply is sent under the guard
remove_apply(t) ==
    /\ At(t, "remove", "resolved")
    /\ last' = last
    /\ \E result \in { remove_book(DB, rt.task[t].uuid) } :
         /\ Written(result.db)
         /\ rt' = IF result.res.kind = "Ok"
                  THEN [rt EXCEPT !.task[t].pc = "reply", !.task[t].res = "Ok"]
                  ELSE Returned(t, result.res.kind)

\* msg.reply(..).await returns and the handler with it
reply_done(t) ==
    /\ Alive
    /\ rt.task[t].pc = "reply"
    /\ rt' = Returned(t, rt.task[t].res)
    /\ Frame

\* the steps of main after init
main_step == abort \/ lock_read \/ try_save_step

\* the steps a handler takes by itself
handler_step(t) ==
    \/ acquire_read(t)
    \/ acquire_write(t)
    \/ list_respond(t)
    \/ add_mint(t)
    \/ add_apply(t)
    \/ set_quantity_apply(t)
    \/ remove_resolve(t)
    \/ remove_apply(t)

NextRun ==
    \/ load_step
    \/ signal
    \/ abort
    \/ lock_read
    \/ try_save_step
    \/ \E t \in Tasks, cmd \in Commands : start(t, cmd)
    \/ \E t \in Tasks : acquire_read(t)
    \/ \E t \in Tasks : acquire_write(t)
    \/ \E t \in Tasks : list_respond(t)
    \/ \E t \in Tasks : add_mint(t)
    \/ \E t \in Tasks : add_apply(t)
    \/ \E t \in Tasks : set_quantity_apply(t)
    \/ \E t \in Tasks : remove_resolve(t)
    \/ \E t \in Tasks : remove_apply(t)
    \/ \E t \in Tasks : reply_done(t)

SpecRun == Boot /\ [][NextRun]_vars

\* the runtime polls every task that can run, main included; nothing
\* makes a signal arrive, a command arrive or a reply return
SpecRunFair ==
    /\ SpecRun
    /\ WF_vars(load_step)
    /\ WF_vars(main_step)
    /\ \A t \in Tasks : WF_vars(handler_step(t))

-----------------------------------------------------------------------------
(* The process run again: adds served one at a time, the shutdown save,    *)
(* and the next run of main loading what was saved                        *)

\* a command handled from start to end while main waits for the signal
serve_add ==
    /\ rt.main = "wait"
    /\ \E n \in Names : add(n.name, n.author)

\* main is run again after it returned: the snapshot file is there, and
\* `saved` still tells how the save that wrote it ended; the dump, which the
\* program never reads, is not followed into the new run.  books, checkouts
\* and users keep what the ended process held until load_step assigns them
restart ==
    /\ rt.main = "exit"
    /\ rt' = [rt EXCEPT !.main = "load", !.dump = << >>, !.dumped = "none"]
    /\ Frame

NextPersist ==
    \/ serve_add
    \/ signal
    \/ abort
    \/ lock_read
    \/ try_save_step
    \/ restart
    \/ load_step

SpecPersist == Init /\ [][NextPersist]_vars

-----------------------------------------------------------------------------
(* The comparator called directly                                          *)

\* the characters of the texts compared: a letter in both cases and the
\* space
CmpChars == {"C", "c", " "}

\* the texts of a length
TextsOf(n) == [1..n -> CmpChars]

ChessBasics == <<"C","h","e","s","s"," ","B","a","s","i","c","s">>
ChessBasicsLower == <<"c","h","e","s","s"," ","b","a","s","i","c","s">>
ChessBasicsTwoSpaces == <<"C","h","e","s","s"," "," ","B","a","s","i","c","s">>

CmpTitles == { ChessBasics, ChessBasicsLower, ChessBasicsTwoSpaces }

CmpTexts == UNION { TextsOf(n) : n \in 0..MaxTextLen } \cup CmpTitles

\* `last` after a comparison: the two texts and the result
Compared(a, b, res) ==
    [NoCall EXCEPT !.op = "cmp_ignore_case_ascii",
                   !.res = [Ok EXCEPT !.kind = res, !.text = << a, b >>]]

\* `last` before the comparison of a and b
Comparing(a, b) == [NoCall EXCEPT !.res = [Ok EXCEPT !.text = << a, b >>]]

\* the call on the two texts drawn
cmp_ignore_case_ascii_call ==
    /\ last.op = "none"
    /\ \E a \in { last.res.text[1] }, b \in { last.res.text[2] } :
         last' = Compared(a, b, cmp_ignore_case_ascii(a, b))
    /\ Store(DB)

NextCompare == cmp_ignore_case_ascii_call

\* the comparator on its own, on two texts drawn at the start: the store
\* stays empty
InitCompare ==
    /\ books = new.books
    /\ checkouts = new.checkouts
    /\ users = new.users
    /\ last \in { Comparing(a, b) : a, b \in CmpTexts }
    /\ added = << >>
    /\ rt = Process("wait", NoFile)

SpecCompare == InitCompare /\ [][NextCompare]_vars

-----------------------------------------------------------------------------

(* Properties                                                              *)

store == <<books, checkouts, users>>

\* the checkouts on book uuid, in map order
checkouts_of(uuid) == SelectSeq(checkouts, LAMBDA e : e.value.book = uuid)

\* two books match on title and author
same_title_author(a, b) ==
    /\ cmp_ignore_case_ascii(a.name, b.name)
    /\ cmp_ignore_case_ascii(a.author, b.author)

\* C1: in every state reached by the add, remove and set-quantity commands,
\* no identifier is a key of more than one of books, users and checkouts.
C1_KeysDisjoint ==
    /\ keys(books) \cap keys(users) = {}
    /\ keys(books) \cap keys(checkouts) = {}
    /\ keys(users) \cap keys(checkouts) = {}

\* C1 witness: the add command has inserted a book under a minted
\* identifier into a store that holds a user and a checkout.
C1_Witness ==
    /\ last = Handled("add", Ok)
    /\ users # << >>
    /\ checkouts # << >>
    /\ \E i \in DOMAIN books : books[i].key = FreshId

\* C2: no two distinct books of the store match on both title and author
\* under cmp_ignore_case_ascii, after any add_book and remove_book calls.
C2_NoDuplicateBooks ==
    \A i, j \in DOMAIN books :
        i # j => ~same_title_author(books[i].value, books[j].value)

\* C2 witness: the store holds two books of the same title (up to case)
\* by different authors, the second added by add_book.
C2_Witness ==
    /\ last.op = "add_book"
    /\ last.res = Ok
    /\ \E i, j \in DOMAIN books :
         /\ i # j
         /\ books[i].value.name # books[j].value.name
         /\ cmp_ignore_case_ascii(books[i].value.name, books[j].value.name)

\* C3: add_book(book) fails with AlreadyAdded(encoded id) when book.uuid is
\* a key of books, else with AlreadyAdded(title) when a book of the store
\* matches on title and author; a failure changes nothing; otherwise the
\* book is inserted under book.uuid.
C3_AddBookResult ==
    [][ last'.op = "add_book" =>
          LET book == last'.book[1]
          IN  IF contains_key(books, book.uuid)
              THEN /\ last'.res = AlreadyAdded(encode_uuid(book.uuid))
                   /\ UNCHANGED store
              ELSE IF \E i \in DOMAIN books : same_title_author(books[i].value, book)
              THEN /\ last'.res = AlreadyAdded(book.name)
                   /\ UNCHANGED store
              ELSE /\ last'.res = Ok
                   /\ books' = Append(books, Entry(book.uuid, book))
                   /\ UNCHANGED <<checkouts, users>> ]_vars

\* C3 witness: add_book has refused, with the new title, a book under an
\* unused identifier whose title differs from a stored one only in case.
C3_Witness ==
    /\ last.op = "add_book"
    /\ last.res = AlreadyAdded(last.book[1].name)
    /\ ~contains_key(books, last.book[1].uuid)
    /\ \E i \in DOMAIN books :
         /\ books[i].value.name # last.book[1].name
         /\ same_title_author(books[i].value, last.book[1])

C5_DoneDoesNotBlock ==
    [][ ( /\ last'.op = "remove_book"
          /\ contains_key(books, last'.uuid)
          /\ \A i \in DOMAIN checkouts :
               checkouts[i].value.book = last'.uuid => checkouts[i].value.status = "DONE" )
        => ( last'.res.kind = "Ok" /\ ~contains_key(books', last'.uuid) ) ]_vars

\* C6: remove_book(uuid) with no checkout on uuid removes exactly the book
\* under uuid and returns it, every other book, user and checkout staying,
\* or fails with UnknownBook(encoded uuid) and changes nothing when uuid is
\* no key of books.
C6_RemoveUnblocked ==
    [][ (last'.op = "remove_book" /\ checkouts_of(last'.uuid) = << >>) =>
          IF contains_key(books, last'.uuid)
          THEN /\ last'.res = OkBook(books[index_of(books, last'.uuid)].value)
               /\ Range(books') = Range(books) \ { books[index_of(books, last'.uuid)] }
               /\ Len(books') = Len(books) - 1
               /\ UNCHANGED <<checkouts, users>>
          ELSE /\ last'.res = UnknownBook(encode_uuid(last'.uuid))
               /\ UNCHANGED store ]_vars

\* C6 witness: remove_book has returned a book and left another one in a
\* store that holds checkouts.
C6_Witness ==
    /\ last.op = "remove_book"
    /\ last.res.kind = "Ok"
    /\ last.res.book # << >>
    /\ books # << >>
    /\ checkouts # << >>

\* C7: the book of every checkout is the key of a book of the store.
C7_CheckoutBookPresent ==
    \A i \in DOMAIN checkouts : contains_key(books, checkouts[i].value.book)

\* C7 witness: remove_book has removed a book from a store whose checkouts
\* are on another book.
C7_Witness ==
    /\ last.op = "remove_book"
    /\ last.res.kind = "Ok"
    /\ checkouts # << >>
    /\ ~contains_key(books, last.uuid)

\* the status that follows a status
successor(status) ==
    IF status = "PreTransact" THEN "Reading"
    ELSE IF status = "Reading" THEN "ReturnVerifyNeeded"
    ELSE IF status = "ReturnVerifyNeeded" THEN "DONE"
    ELSE "none"

C9_CheckoutCreatesPreTransact ==
    [][ last'.op = "checkout" =>
          /\ Len(checkouts') = Len(checkouts) + 1
          /\ checkouts'[Len(checkouts')].value.status = "PreTransact"
          /\ checkouts'[Len(checkouts')].value.due_date = << >>
          /\ checkouts'[Len(checkouts')].value.checkout_approval = << >>
          /\ checkouts'[Len(checkouts')].value.checkin_approval = << >> ]_vars

\* C10: the list command shows the books of the store in the order in
\* which they were added.
C10_ListInAddedOrder ==
    last.op = "list" =>
        [ i \in DOMAIN response_lines(DB) |-> response_lines(DB)[i].id ]
            = [ i \in DOMAIN added |-> encode_uuid(added[i]) ]

\* C11: every book of the store has quantity >= 1, whatever add and
\* set-quantity commands were handled.
C11_QuantityAtLeastOne ==
    \A i \in DOMAIN books : books[i].value.quantity >= 1

\* text is unpadded base-32 of exactly 4 bytes: 7 symbols of the alphabet,
\* the 3 bits past the 32nd zero
well_formed(text) ==
    /\ Len(text) = 7
    /\ \A i \in 1..7 : IsIn(Base32Symbols, text[i])
    /\ (IndexIn(Base32Symbols, text[7]) - 1) % 8 = 0

\* the 32-bit value of well-formed text, most significant symbol first
value_of(text) ==
    LET v(i) == IndexIn(Base32Symbols, text[i]) - 1
    IN  v(1) * 134217728 + v(2) * 4194304 + v(3) * 131072 + v(4) * 4096
          + v(5) * 128 + v(6) * 4 + (v(7) \div 8)

\* the classes whose mapping holds id
holders(id) ==
    { c \in {"User", "Book", "Checkout"} :
        \/ c = "User" /\ id \in keys(users)
        \/ c = "Book" /\ id \in keys(books)
        \/ c = "Checkout" /\ id \in keys(checkouts) }

\* the class a decode function asks for
wanted(op) ==
    IF op = "decode_user_uuid" THEN "User"
    ELSE IF op = "decode_book_uuid" THEN "Book"
    ELSE "Checkout"

\* C12: a class-specific decode of text yields InvalidEncoding when text is
\* not base-32 of exactly 4 bytes, NotFound when no mapping holds the value,
\* the value when the mapping of the requested class holds it, and else the
\* Mismatch error naming the class that holds it.
C12_DecodeClassifies ==
    [][ last'.op \in {"decode_user_uuid", "decode_book_uuid", "decode_checkout_uuid"} =>
          LET text == last'.res.text
          IN  IF ~well_formed(text) THEN last'.res.kind = "InvalidEncoding"
              ELSE IF holders(value_of(text)) = {} THEN last'.res.kind = "NotFound"
              ELSE IF wanted(last'.op) \in holders(value_of(text))
              THEN last'.res.kind = "None" /\ last'.uuid = value_of(text)
              ELSE \E c \in holders(value_of(text)) :
                     last'.res.kind = "MismatchIs" \o c \o "Uuid" ]_vars

\* C12 witness: decode_book_uuid has answered MismatchIsCheckoutUuid to the
\* encoded identifier of a checkout of the store.
C12_Witness ==
    /\ last.op = "decode_book_uuid"
    /\ last.res.kind = "MismatchIsCheckoutUuid"
    /\ \E i \in DOMAIN checkouts : encode_uuid(checkouts[i].key) = last.res.text

\* C13: for every identifier held by a user, a book or a checkout of the
\* store, encode_uuid gives 7 base-32 symbols, without padding, of its 4
\* bytes most significant first, and decoding that text gives the
\* identifier back with the class of its holder.
C13_RoundTrip ==
    \A id \in keys(users) \cup keys(books) \cup keys(checkouts) :
        id >= Pow2_27 =>
            /\ well_formed(encode_uuid(id))
            /\ value_of(encode_uuid(id)) = id
            /\ decode_raw(DB, encode_uuid(id)).err = "None"
            /\ decode_raw(DB, encode_uuid(id)).id = id
            /\ holders(id) = { decode_raw(DB, encode_uuid(id)).type }

\* C13 witness: the store holds a user, a checkout and a book added under
\* a minted identifier, and decode_book_uuid has returned that identifier
\* from its encoding.
C13_Witness ==
    /\ users # << >>
    /\ checkouts # << >>
    /\ contains_key(books, FreshId)
    /\ last.op = "decode_book_uuid"
    /\ last.res.text = encode_uuid(FreshId)
    /\ last.res.kind = "None"
    /\ last.uuid = FreshId

\* C14: the identifier a new_*_uuid call returns fits 32 bits, has its top
\* 5 bits not all zero, and is no key of books, users or checkouts; the
\* call leaves the store as it was.
C14_MintFresh ==
    [][ last'.op \in {"new_user_uuid", "new_book_uuid", "new_checkout_uuid"} =>
          /\ last'.uuid >= Pow2_27
          /\ last'.uuid \div Pow2_27 \in 1..31
          /\ last'.uuid \notin keys(books) \cup keys(users) \cup keys(checkouts)
          /\ UNCHANGED store ]_vars

\* C14 witness: new_book_uuid has returned the one candidate that is
\* neither below 2^27 nor the key of the user or of a checkout of the store.
C14_Witness ==
    /\ last.op = "new_book_uuid"
    /\ last.uuid = FreshId
    /\ contains_key(users, InitUserId)
    /\ contains_key(checkouts, InitCheckoutId(1))

\* the positions of the books whose title matches text
title_hits(text) ==
    { i \in DOMAIN books : cmp_ignore_case_ascii(books[i].value.name, text) }

\* C15: get_book_from_input and get_book_from_input_mut return the book
\* under the identifier text decodes to when a book holds it; else the
\* first book, in map order, whose title matches text; else None; and they
\* leave the store as it was.
C15_ResolveBook ==
    [][ last'.op \in {"get_book_from_input", "get_book_from_input_mut"} =>
          LET text == last'.res.text
          IN  /\ IF well_formed(text) /\ value_of(text) \in keys(books)
                 THEN last'.res.book = get(books, value_of(text))
                 ELSE IF title_hits(text) # {}
                 THEN \E i \in title_hits(text) :
                        /\ \A j \in title_hits(text) : i <= j
                        /\ last'.res.book = << books[i].value >>
                 ELSE last'.res.book = << >>
              /\ UNCHANGED store ]_vars

\* C15 witness: get_book_from_input_mut, given a title that two books of
\* the store match, has returned the one that comes first in the map.
C15_Witness ==
    /\ last.op = "get_book_from_input_mut"
    /\ \E i, j \in title_hits(last.res.text) :
         /\ i < j
         /\ last.res.book = << books[i].value >>

\* handler t is between taking its write guard and returning
in_write_section(t) ==
    /\ rt.task[t].cmd.op \in {"add", "set_quantity", "remove"}
    /\ rt.task[t].pc \in {"held", "minted", "resolved", "reply"}

\* handlers t and u have both finished an add of the same title and author
\* that no book under another identifier matches
added_same(t, u) ==
    /\ t # u
    /\ rt.task[t].cmd.op = "add" /\ rt.task[u].cmd.op = "add"
    /\ rt.task[t].pc \in {"reply", "done"} /\ rt.task[u].pc \in {"reply", "done"}
    /\ cmp_ignore_case_ascii(rt.task[t].cmd.book_name, rt.task[u].cmd.book_name)
    /\ cmp_ignore_case_ascii(rt.task[t].cmd.book_author, rt.task[u].cmd.book_author)
    /\ \A i \in DOMAIN books :
         ( /\ cmp_ignore_case_ascii(books[i].value.name, rt.task[t].cmd.book_name)
           /\ cmp_ignore_case_ascii(books[i].value.author, rt.task[t].cmd.book_author) )
         => books[i].key \in { rt.task[t].uuid, rt.task[u].uuid }

\* C16: an add, remove or set-quantity handler holds the write guard,
\* alone, from before its checks until after its mutation: what it checked
\* still holds when it mutates, and of two concurrent adds of one new
\* title and author exactly one inserts, the other fails with AlreadyAdded,
\* and the two were given different identifiers.
C16_WriteGuardSpansCheckAndMutation ==
    /\ Cardinality(rt.lock.writers) <= 1
    /\ rt.lock.writers # {} => rt.lock.readers = {}
    /\ \A t \in Tasks : in_write_section(t) => t \in rt.lock.writers
    /\ \A t \in Tasks :
         (rt.task[t].cmd.op = "add" /\ rt.task[t].pc = "minted")
           => rt.task[t].uuid \notin keys(books) \cup keys(users) \cup keys(checkouts)
    /\ \A t \in Tasks :
         (rt.task[t].cmd.op = "remove" /\ rt.task[t].pc = "resolved")
           => contains_key(books, rt.task[t].uuid)
    /\ \A t, u \in Tasks :
         added_same(t, u) =>
           /\ { rt.task[t].res, rt.task[u].res } = {"Ok", "AlreadyAdded"}
           /\ rt.task[t].uuid # rt.task[u].uuid

\* C16 witness: two handlers have finished adds of one title and author,
\* written in different case, that no other book matches.
C16_Witness ==
    \E t, u \in Tasks :
        /\ added_same(t, u)
        /\ rt.task[t].cmd.book_name # rt.task[u].cmd.book_name
        /\ rt.task[t].res = "Ok"
        /\ rt.task[u].pc = "done"

C18_ShutdownSaveCompletes == (rt.main = "abort") ~> (rt.main = "exit")

\* data is the serialization of none of the stores a snapshot can hold here
malformed(data) == \A s \in BootSnapshots \cup {new} : serialize(s) # data

C20_LoadMissingOrMalformed ==
    [][ /\ (rt.main = "load" /\ ~rt.file.exists) =>
              (<<books', checkouts', users'>> = <<new.books, new.checkouts, new.users>>
                 /\ rt'.main \in {"wait", "init_err"})
        /\ (rt.main = "load" /\ rt.file.exists /\ malformed(rt.file.data)) =>
              (rt'.main = "panic" /\ rt'.file = rt.file /\ UNCHANGED store)
        /\ rt.main # "panic" ]_vars

\* C20 witness: the process has panicked on a file that holds part of a
\* snapshot.
C20_Witness ==
    /\ rt.main = "panic"
    /\ rt.file.exists
    /\ rt.file.data # << >>

\* C21: when main is run again on the file a successful save wrote, load
\* does not fail and gives the store that was saved: the same entries
\* under the same keys, with the same fields, in the same order in books,
\* checkouts and users.
C21_SaveLoadRoundTrip ==
    [][ (rt.main = "load" /\ rt.saved = "ok") =>
          /\ rt'.main # "panic"
          /\ books' = books
          /\ checkouts' = checkouts
          /\ users' = users ]_vars

\* C21 witness: a run that loaded what the run before it saved, a store
\* with a book added in that run after another, a checkout and a user.
C21_Witness ==
    /\ rt.main = "wait"
    /\ rt.saved = "ok"
    /\ Len(books) >= 2
    /\ books[Len(books)].key = FreshId
    /\ checkouts # << >>
    /\ users # << >>

\* a letter of A..Z as its lower-case letter, any other character as itself
fold(c) == IF IsIn(Upper, c) THEN Lower[IndexIn(Upper, c)] ELSE c

\* C22: cmp_ignore_case_ascii(a, b) is true exactly when a and b have the
\* same length and at every position the same character once upper-case
\* letters are folded to lower case; runs of spaces are not collapsed, so
\* "Chess  Basics" does not match "Chess Basics" while "chess basics"
\* does; every text matches itself and the result does not depend on the
\* order of the two texts.
C22_ComparatorPositionWise ==
    last.op = "cmp_ignore_case_ascii" =>
        /\ last.res.kind =
             ( /\ Len(last.res.text[1]) = Len(last.res.text[2])
               /\ \A i \in 1..Len(last.res.text[1]) :
                    fold(last.res.text[1][i]) = fold(last.res.text[2][i]) )
        /\ last.res.text = << ChessBasicsTwoSpaces, ChessBasics >> => ~last.res.kind
        /\ last.res.text = << ChessBasicsLower, ChessBasics >> => last.res.kind
        /\ last.res.text[1] = last.res.text[2] => last.res.kind
        /\ last.res.kind = cmp_ignore_case_ascii(last.res.text[2], last.res.text[1])

\* C22 witness: "chess basics" was compared with "Chess Basics" and matched.
C22_Witness ==
    /\ last.op = "cmp_ignore_case_ascii"
    /\ last.res.text = << ChessBasicsLower, ChessBasics >>
    /\ last.res.kind

\* C23: a handler that is waiting for its reply to be delivered holds
\* neither a read guard nor the write guard of the store.
C23_NoGuardAcrossReply ==
    \A t \in Tasks :
        rt.task[t].pc = "reply" => t \notin rt.lock.writers \cup rt.lock.readers

\* every book of bs is stored under its own uuid
own_uuid(bs) == \A i \in DOMAIN bs : bs[i].key = bs[i].value.uuid

\* C24: every book of the store is stored under its own uuid, before and
\* after every command; and a set-quantity command leaves every book in
\* its place with its uuid, name and author, changing at most quantities.
C24_BooksUnderOwnUuid ==
    [][ /\ own_uuid(books)
        /\ own_uuid(books')
        /\ last'.op = "set_quantity" =>
             /\ Len(books') = Len(books)
             /\ \A i \in DOMAIN books :
                  /\ books'[i].key = books[i].key
                  /\ books'[i].value.uuid = books[i].value.uuid
                  /\ books'[i].value.name = books[i].value.name
                  /\ books'[i].value.author = books[i].value.author ]_vars

\* C24 witness: a book the add command inserted has had its quantity set
\* to another value by set-quantity.
C24_Witness ==
    /\ last.op = "set_quantity"
    /\ last.res.kind = "Ok"
    /\ \E i \in DOMAIN books :
         books[i].key = FreshId /\ books[i].value.quantity # 1

====
